---- MODULE Spec2Model ----
(***************************************************************************)
(* State-machine model of the KubernetesManager of mcp-server-kubernetes:  *)
(* the credential-source resolution done by its constructor, the ephemeral *)
(* kubeconfig file it writes for kubectl (with its exit/signal cleanup     *)
(* hooks), and the resource / watch / port-forward registries with their   *)
(* cleanup pass.                                                           *)
(*                                                                         *)
(* The repository holds three copies of the class:                         *)
(*   "manager"     src/src/utils/kubernetes-manager.ts                     *)
(*   "kubectl_ops" src/src/tools/kubectl-operations.ts (lines 207-591)     *)
(*   "part_000"    src/unnamed/part_000                                    *)
(* The variable impl says which copy a behaviour runs.                     *)
(*                                                                         *)
(* A JavaScript string is a sequence of tokens; " " is a whitespace        *)
(* character, every other token stands for a run of non-blank characters.  *)
(***************************************************************************)
EXTENDS Integers, Sequences, FiniteSets, TLC

VARIABLES
    impl,        \* which copy of the class is running
    env,         \* process.env: variable name -> [isSet, text]
    inCluster,   \* the service-account token file exists
    proc,        \* the process: [state, cause, exitEvent]
    files,       \* every file createTempKubeconfigFromYaml left on disk, by id
    listeners,   \* process.on registrations: event -> sequence of file ids
    mgr,         \* the KubernetesManager built by the latest construction
    nCtor,       \* number of constructions so far
    kubectl,     \* the tool dispatch and the last executeKubectlCommand call
    sse,         \* the SSE front end: its transports and the POSTs it answered
    resources,   \* this.resources: sequence of [kind, name, namespace]
    watches,     \* this.watches: sequence of [id, aborted, abortCalls]
    portForwards, \* this.portForwards: sequence of [id]
    tasks,       \* the cleanup() / deleteResource() calls made so far
    apiLog,      \* the delete calls sent to the cluster API, in order
    nTrack,      \* number of trackResource calls so far
    pfCall       \* the last getPortForward and the last removePortForward call

procVars == <<impl, env, inCluster, proc, files, listeners, mgr, nCtor, kubectl, sse>>
trackerVars == <<resources, watches, portForwards, tasks, apiLog, nTrack, pfCall>>
vars == <<impl, env, inCluster, proc, files, listeners, mgr, nCtor, kubectl, sse,
          resources, watches, portForwards, tasks, apiLog, nTrack, pfCall>>

(***************************************************************************)
(* Bounds                                                                  *)
(***************************************************************************)
MaxConstructions == 2
MaxResources == 3       \* trackResource calls in one behaviour
MaxTasks == 1           \* cleanup() / deleteResource() calls in one behaviour
MaxWatches == 1         \* trackWatch calls in one behaviour
MaxPortForwards == 2    \* entries of this.portForwards
MaxCleanups == 2        \* cleanup() calls in one behaviour of SpecRegistry
MaxTracked == 1         \* trackResource calls in one behaviour of SpecRegistry
MaxPasses == 2          \* cleanup() calls in one behaviour of SpecOverlap
MaxStamped == 2         \* trackResource calls in one behaviour of SpecOverlap
MaxSessions == 2        \* GET /sse requests in one behaviour
MaxPosts == 2           \* POST /messages requests in one behaviour

(***************************************************************************)
(* Strings and environment values                                          *)
(***************************************************************************)
RECURSIVE TrimLeft(_)
TrimLeft(s) ==
    IF s = <<>> THEN s
    ELSE IF Head(s) = " " THEN TrimLeft(Tail(s)) ELSE s

RECURSIVE TrimRight(_)
TrimRight(s) ==
    IF s = <<>> THEN s
    ELSE IF s[Len(s)] = " " THEN TrimRight(SubSeq(s, 1, Len(s) - 1)) ELSE s

Trim(s) == TrimRight(TrimLeft(s))

Unset == [isSet |-> FALSE, text |-> <<>>]
Str(t) == [isSet |-> TRUE, text |-> t]

\* JavaScript truthiness of process.env.X: defined and not the empty string
Truthy(v) == v.isSet /\ v.text # <<>>

\* !!(process.env.X && process.env.X.trim())
NonBlankUntrimmed(v) == Truthy(v)

NonBlank(v) == Truthy(v) /\ Trim(v.text) # <<>>

EnvNames ==
    {"KUBECONFIG_YAML", "KUBECONFIG_JSON", "K8S_SERVER", "K8S_TOKEN",
     "KUBECONFIG_PATH", "KUBECONFIG", "K8S_CONTEXT", "K8S_SKIP_TLS_VERIFY",
     "K8S_NAMESPACE"}

Impls == {"manager", "kubectl_ops", "part_000"}

(***************************************************************************)
(* The kubeconfig held by k8s.KubeConfig                                   *)
(***************************************************************************)
\* contexts: the context names; links: what each context refers to
NoConfig ==
    [origin |-> "none", contexts |-> {}, current |-> <<>>,
     clusters |-> {}, users |-> {}, links |-> {}]

\* the document the token "doc" stands for (a well-formed kubeconfig)
DocConfig(origin) ==
    [origin |-> origin,
     contexts |-> {<<"ctx-a">>, <<"ctx-b">>},
     current |-> <<"ctx-a">>,
     clusters |-> {[name |-> "cluster-a", server |-> <<"server-a">>,
                    skipTLSVerify |-> FALSE],
                   [name |-> "cluster-b", server |-> <<"server-b">>,
                    skipTLSVerify |-> FALSE]},
     users |-> {[name |-> "user-a", token |-> <<"token-a">>]},
     links |-> {[name |-> <<"ctx-a">>, cluster |-> "cluster-a", user |-> "user-a"],
                [name |-> <<"ctx-b">>, cluster |-> "cluster-b", user |-> "user-a"]}]

ClusterConfig ==
    [origin |-> "cluster",
     contexts |-> {<<"inClusterContext">>},
     current |-> <<"inClusterContext">>,
     clusters |-> {[name |-> "inCluster", server |-> <<"kubernetes.default">>,
                    skipTLSVerify |-> FALSE]},
     users |-> {[name |-> "inClusterUser", token |-> <<"sa-token">>]},
     links |-> {[name |-> <<"inClusterContext">>, cluster |-> "inCluster",
                 user |-> "inClusterUser"]}]

\* skipTLSVerify: process.env.K8S_SKIP_TLS_VERIFY === 'true'
SkipTLSVerifyTruthy(e) == Truthy(e["K8S_SKIP_TLS_VERIFY"])

SkipTLSVerify(e) == e["K8S_SKIP_TLS_VERIFY"] = Str(<<"true">>)

\* the object loadEnvMinimalKubeconfig hands to kc.loadFromOptions
MinimalConfigServerFromToken(e) ==
    [origin |-> "minimal",
     contexts |-> {<<"env-context">>},
     current |-> <<"env-context">>,
     clusters |-> {[name |-> "env-cluster", server |-> e["K8S_TOKEN"].text,
                    skipTLSVerify |-> SkipTLSVerify(e)]},
     users |-> {[name |-> "env-user", token |-> e["K8S_TOKEN"].text]},
     links |-> {[name |-> <<"env-context">>, cluster |-> "env-cluster",
                 user |-> "env-user"]}]

MinimalConfig(e) ==
    [origin |-> "minimal",
     contexts |-> {<<"env-context">>},
     current |-> <<"env-context">>,
     clusters |-> {[name |-> "env-cluster", server |-> e["K8S_SERVER"].text,
                    skipTLSVerify |-> SkipTLSVerify(e)]},
     users |-> {[name |-> "env-user", token |-> e["K8S_TOKEN"].text]},
     links |-> {[name |-> <<"env-context">>, cluster |-> "env-cluster",
                 user |-> "env-user"]}]

\* a text parses as a kubeconfig document iff, blanks aside, it is "doc"
ParsesAsDoc(text) == Trim(text) = <<"doc">>

\* a path can be loaded iff it names the kubeconfig file "file"
FileLoads(text) == text = <<"file">>

(***************************************************************************)
(* Source predicates                                                       *)
(***************************************************************************)
IsRunningInCluster(tokenFile) == tokenFile

HasEnvKubeconfigYaml(e) == NonBlank(e["KUBECONFIG_YAML"])

HasEnvKubeconfigJson(e) == NonBlank(e["KUBECONFIG_JSON"])

HasEnvMinimalKubeconfig(e) ==
    NonBlank(e["K8S_SERVER"]) /\ NonBlank(e["K8S_TOKEN"])

HasEnvKubeconfigPath(e) == NonBlank(e["KUBECONFIG_PATH"])

HasEnvKubeconfig(e) == NonBlank(e["KUBECONFIG"])

(***************************************************************************)
(* The if / else-if chain of each constructor                              *)
(***************************************************************************)
SelectSourceYamlFirst(e, tokenFile) ==
    IF HasEnvKubeconfigYaml(e) THEN "yaml"
    ELSE IF IsRunningInCluster(tokenFile) THEN "cluster"
    ELSE IF HasEnvKubeconfigJson(e) THEN "json"
    ELSE IF HasEnvMinimalKubeconfig(e) THEN "minimal"
    ELSE IF HasEnvKubeconfigPath(e) THEN "path"
    ELSE "default"

SelectSourceManager(e, tokenFile) ==
    IF IsRunningInCluster(tokenFile) THEN "cluster"
    ELSE IF HasEnvKubeconfigYaml(e) THEN "yaml"
    ELSE IF HasEnvKubeconfigJson(e) THEN "json"
    ELSE IF HasEnvMinimalKubeconfig(e) THEN "minimal"
    ELSE IF HasEnvKubeconfigPath(e) THEN "path"
    ELSE "default"

SelectSourceKubectlOps(e, tokenFile) ==
    IF HasEnvKubeconfigYaml(e) THEN "yaml"
    ELSE IF IsRunningInCluster(tokenFile) THEN "cluster"
    ELSE IF HasEnvKubeconfigJson(e) THEN "json"
    ELSE IF HasEnvMinimalKubeconfig(e) THEN "minimal"
    ELSE IF HasEnvKubeconfigPath(e) THEN "path"
    ELSE IF HasEnvKubeconfig(e) THEN "kubeconfig"
    ELSE "default"

SelectSourcePart000(e, tokenFile) ==
    IF IsRunningInCluster(tokenFile) THEN "cluster"
    ELSE IF HasEnvKubeconfigYaml(e) THEN "yaml"
    ELSE IF HasEnvKubeconfigJson(e) THEN "json"
    ELSE IF HasEnvMinimalKubeconfig(e) THEN "minimal"
    ELSE IF HasEnvKubeconfigPath(e) THEN "path"
    ELSE "default"

SelectSource(i, e, tokenFile) ==
    CASE i = "manager" -> SelectSourceManager(e, tokenFile)
      [] i = "kubectl_ops" -> SelectSourceKubectlOps(e, tokenFile)
      [] i = "part_000" -> SelectSourcePart000(e, tokenFile)

(***************************************************************************)
(* Loading the selected source.  The result says whether the load threw,   *)
(* the configuration now in kc, and the KubeConfig methods that were       *)
(* called.                                                                 *)
(***************************************************************************)
Loaded(cfg, calls) == [ok |-> TRUE, kc |-> cfg, kcCalls |-> calls, cause |-> "none"]
LoadThrew(calls, cause) == [ok |-> FALSE, kc |-> NoConfig, kcCalls |-> calls, cause |-> cause]

LoadEnvKubeconfigYaml(e) ==
    IF ~Truthy(e["KUBECONFIG_YAML"])
    THEN LoadThrew(<<>>, "KUBECONFIG_YAML environment variable is not set")
    ELSE IF ParsesAsDoc(e["KUBECONFIG_YAML"].text)
         THEN Loaded(DocConfig("yaml"), <<"loadFromString">>)
         ELSE LoadThrew(<<"loadFromString">>, "YAML parse error")

LoadEnvKubeconfigJson(e) ==
    IF ParsesAsDoc(e["KUBECONFIG_JSON"].text)
    THEN Loaded(DocConfig("json"), <<"loadFromOptions">>)
    ELSE LoadThrew(<<>>, "JSON.parse error")

LoadEnvMinimalKubeconfig(e) ==
    IF ~Truthy(e["K8S_SERVER"]) \/ ~Truthy(e["K8S_TOKEN"])
    THEN LoadThrew(<<>>, "K8S_SERVER and K8S_TOKEN environment variables are required")
    ELSE Loaded(MinimalConfig(e), <<"loadFromOptions">>)

LoadEnvKubeconfigPath(e) ==
    IF FileLoads(e["KUBECONFIG_PATH"].text)
    THEN Loaded(DocConfig("path"), <<"loadFromFile">>)
    ELSE LoadThrew(<<"loadFromFile">>, "ENOENT")

LoadEnvKubeconfig(e) ==
    IF FileLoads(e["KUBECONFIG"].text)
    THEN Loaded(DocConfig("kubeconfig"), <<"loadFromFile">>)
    ELSE LoadThrew(<<"loadFromFile">>, "ENOENT")

LoadSource(src, e) ==
    CASE src = "cluster" -> Loaded(ClusterConfig, <<"loadFromCluster">>)
      [] src = "yaml" -> LoadEnvKubeconfigYaml(e)
      [] src = "json" -> LoadEnvKubeconfigJson(e)
      [] src = "minimal" -> LoadEnvMinimalKubeconfig(e)
      [] src = "path" -> LoadEnvKubeconfigPath(e)
      [] src = "kubeconfig" -> LoadEnvKubeconfig(e)
      [] src = "default" -> Loaded(DocConfig("default"), <<"loadFromDefault">>)

\* the message the constructor's catch block wraps a failure of src in
ErrorPrefixSwapped(src) ==
    CASE src = "yaml" -> "Failed to parse KUBECONFIG_JSON"
      [] src = "json" -> "Failed to parse KUBECONFIG_YAML"
      [] src = "minimal" -> "Failed to create kubeconfig from K8S_SERVER and K8S_TOKEN"
      [] src = "path" -> "Failed to load kubeconfig from KUBECONFIG_PATH"
      [] OTHER -> "unwrapped"

ErrorPrefix(src) ==
    CASE src = "yaml" -> "Failed to parse KUBECONFIG_YAML"
      [] src = "json" -> "Failed to parse KUBECONFIG_JSON"
      [] src = "minimal" -> "Failed to create kubeconfig from K8S_SERVER and K8S_TOKEN"
      [] src = "path" -> "Failed to load kubeconfig from KUBECONFIG_PATH"
      [] OTHER -> "unwrapped"

(***************************************************************************)
(* The ephemeral kubeconfig file                                           *)
(***************************************************************************)
\* kc.exportConfig(): the text of the loaded configuration
ExportConfig(kc) == IF kc.origin = "minimal" THEN <<"envdoc">> ELSE <<"doc">>

\* which branches call createTempKubeconfigFromYaml
NeedsTempFileNoMinimal(i, src) == i # "part_000" /\ src \in {"yaml", "json"}

NeedsTempFile(i, src) == i # "part_000" /\ src \in {"yaml", "json", "minimal"}

\* the text handed to createTempKubeconfigFromYaml
TempFileText(src, e, kc) ==
    IF src = "yaml" THEN e["KUBECONFIG_YAML"].text ELSE ExportConfig(kc)

\* what the file system can do to one createTempKubeconfigFromYaml call
IoOutcomes(i) ==
    IF i = "manager"
    THEN {"ok", "testWriteFails", "writeFails", "writeFailsPartial", "verifyFails"}
    ELSE {"ok", "writeFails", "writeFailsPartial"}

TmpPath(id) == <<"tmpdir", ToString(id)>>

\* outcome of createTempKubeconfigFromYaml(text) under io: whether it threw,
\* whether a file is left on disk, and whether KUBECONFIG was bound and the
\* handlers registered
CreateTempKubeconfigFromYaml(text, io) ==
    IF text = <<>>
    THEN [ok |-> FALSE, onDisk |-> FALSE, cause |-> "Invalid kubeconfigYaml"]
    ELSE CASE io = "testWriteFails" ->
                [ok |-> FALSE, onDisk |-> FALSE, cause |-> "Temp directory not writable"]
           [] io = "writeFails" ->
                [ok |-> FALSE, onDisk |-> FALSE, cause |-> "write error"]
           [] io = "writeFailsPartial" ->
                [ok |-> FALSE, onDisk |-> TRUE, cause |-> "write error"]
           [] io = "verifyFails" ->
                [ok |-> FALSE, onDisk |-> TRUE, cause |-> "File verification failed"]
           [] io = "ok" ->
                [ok |-> TRUE, onDisk |-> TRUE, cause |-> "none"]

NoTemp == [ok |-> TRUE, onDisk |-> FALSE, cause |-> "none"]

\* fs.writeFileSync(tempKubeconfigPath, kubeconfigYaml, { mode: 0o600, ... })
\* with tempKubeconfigPath = path.join(os.tmpdir(), ...)
NewFileWorldReadable(text, registered) ==
    [text |-> text, mode |-> "0644", dir |-> "tmpdir", live |-> TRUE,
     registered |-> registered, unlinks |-> 0, termCalls |-> 0]

NewFile(text, registered) ==
    [text |-> text, mode |-> "0600", dir |-> "tmpdir", live |-> TRUE,
     registered |-> registered, unlinks |-> 0, termCalls |-> 0]

\* process.on('exit', cleanupTempFile)
OnExitSkipped(ls, f) == ls

OnExit(ls, f) == Append(ls, f)

\* process.on(signal, ...) for SIGINT, SIGTERM, SIGUSR1, SIGUSR2
Register(l, f) ==
    [exit |-> OnExit(l.exit, f),
     SIGINT |-> Append(l.SIGINT, f),
     SIGTERM |-> Append(l.SIGTERM, f),
     SIGUSR1 |-> Append(l.SIGUSR1, f),
     SIGUSR2 |-> Append(l.SIGUSR2, f)]

(***************************************************************************)
(* Context override and API clients                                        *)
(***************************************************************************)
\* kc.makeApiClient(...) for the three API groups: bound to the current context
MakeApiClients(kc) == [core |-> kc.current, apps |-> kc.current, batch |-> kc.current]

NoClients == [core |-> <<"undefined">>, apps |-> <<"undefined">>, batch |-> <<"undefined">>]

\* setCurrentContext(name) on configuration kc: [threw, kc]
SetCurrentContextUnchecked(kc, name) ==
    [threw |-> FALSE, kc |-> [kc EXCEPT !.current = name]]

SetCurrentContext(kc, name) ==
    IF name \notin kc.contexts
    THEN [threw |-> TRUE, kc |-> kc]
    ELSE [threw |-> FALSE, kc |-> [kc EXCEPT !.current = name]]

\* lines 95-105: the override is applied when K8S_CONTEXT is truthy
ApplyContextOverride(kc, e) ==
    IF Truthy(e["K8S_CONTEXT"])
    THEN SetCurrentContext(kc, e["K8S_CONTEXT"].text)
    ELSE [threw |-> FALSE, kc |-> kc]

(***************************************************************************)
(* new KubernetesManager()                                                 *)
(***************************************************************************)
\* no setCurrentContext call was made on the manager yet
NoSwitch ==
    [called |-> FALSE, name |-> <<>>, threw |-> FALSE, kcBefore |-> NoConfig,
     clientsBefore |-> NoClients]

\* the values one construction assigns to process.env.KUBECONFIG, in order:
\* the path of the ephemeral file once it is written (line 438), or
\* KUBECONFIG_PATH once that file is loaded (line 83)
KubeconfigWritesTwice(src, loaded, tempOk, id, e) ==
    IF tempOk THEN <<Str(TmpPath(id)), Str(TmpPath(id))>>
    ELSE IF src = "path" /\ loaded THEN <<e["KUBECONFIG_PATH"], e["KUBECONFIG_PATH"]>>
    ELSE <<>>

KubeconfigWrites(src, loaded, tempOk, id, e) ==
    IF tempOk THEN <<Str(TmpPath(id))>>
    ELSE IF src = "path" /\ loaded THEN <<e["KUBECONFIG_PATH"]>>
    ELSE <<>>

\* tool calls are dispatched once a manager has been constructed
StartServing(k, constructed) == [k EXCEPT !.serving = @ \/ constructed]

ToolsServed == kubectl.serving

\* getDefaultNamespace() was not called yet
NoNsCall == [called |-> FALSE, result |-> <<>>]

NoManager ==
    [state |-> "none", source |-> "none", loaded |-> <<>>, kcCalls |-> <<>>,
     error |-> [prefix |-> "none", cause |-> "none"], kc |-> NoConfig,
     clients |-> NoClients, warned |-> FALSE, tempTried |-> FALSE,
     tempOk |-> FALSE, file |-> 0, envBefore |-> Unset, loadedKc |-> NoConfig,
     envWrites |-> <<>>, switch |-> NoSwitch, nsCall |-> NoNsCall]

\* no getPortForward / removePortForward call was made yet
NoPfCall ==
    [get |-> [called |-> FALSE, id |-> "none", before |-> <<>>,
              result |-> <<>>, raised |-> FALSE],
     remove |-> [called |-> FALSE, id |-> "none", before |-> <<>>,
                 after |-> <<>>, raised |-> FALSE]]

\* the SSE front end before any request: let transports = []
NoSse == [transports |-> <<>>, posts |-> <<>>]

\* no tool is dispatched yet and executeKubectlCommand has not run
NoKubectl == [serving |-> FALSE, ran |-> FALSE, passed |-> Unset, exists |-> FALSE]

Construct(io) ==
    /\ proc.state = "running"
    /\ nCtor < MaxConstructions
    /\ LET src == SelectSource(impl, env, inCluster)
           ld == LoadSource(src, env)
           tried == ld.ok /\ NeedsTempFile(impl, src)
           tmp == IF tried
                  THEN CreateTempKubeconfigFromYaml(TempFileText(src, env, ld.kc), io)
                  ELSE NoTemp
           id == Len(files) + 1
           threw == ~ld.ok \/ ~tmp.ok
           ctx == ApplyContextOverride(ld.kc, env)
           writes == KubeconfigWrites(src, ld.ok, tried /\ tmp.ok, id, env)
       IN /\ files' = IF tmp.onDisk
                      THEN Append(files, NewFile(TempFileText(src, env, ld.kc), tmp.ok))
                      ELSE files
          /\ listeners' = IF tried /\ tmp.ok THEN Register(listeners, id) ELSE listeners
          /\ env' = IF writes = <<>> THEN env
                    ELSE [env EXCEPT !["KUBECONFIG"] = writes[Len(writes)]]
          /\ kubectl' = StartServing(kubectl, ~threw)
          /\ mgr' = [state |-> IF threw THEN "threw" ELSE "ok",
                     source |-> src,
                     loaded |-> <<src>>,
                     kcCalls |-> ld.kcCalls,
                     error |-> IF ~ld.ok
                               THEN [prefix |-> ErrorPrefix(src), cause |-> ld.cause]
                               ELSE IF ~tmp.ok
                                    THEN [prefix |-> ErrorPrefix(src), cause |-> tmp.cause]
                                    ELSE [prefix |-> "none", cause |-> "none"],
                     kc |-> IF threw THEN ld.kc ELSE ctx.kc,
                     clients |-> IF threw THEN NoClients ELSE MakeApiClients(ctx.kc),
                     warned |-> ~threw /\ ctx.threw,
                     tempTried |-> tried,
                     tempOk |-> tried /\ tmp.ok,
                     file |-> IF tmp.onDisk THEN id ELSE 0,
                     envBefore |-> env["KUBECONFIG"],
                     loadedKc |-> ld.kc,
                     envWrites |-> writes,
                     switch |-> NoSwitch,
                     nsCall |-> NoNsCall]
    /\ nCtor' = nCtor + 1
    /\ UNCHANGED <<impl, inCluster, proc>>
    /\ UNCHANGED trackerVars
    /\ UNCHANGED sse

(***************************************************************************)
(* Calls made by the tools on a constructed manager                        *)
(***************************************************************************)
ContextNames == {<<"ctx-a">>, <<"ctx-b">>, <<"junk">>}

\* lines 283-285: the three clients are made again from the configuration
RederiveClientsKeepBatch(old, kc) == [MakeApiClients(kc) EXCEPT !.batch = old.batch]

RederiveClients(old, kc) == MakeApiClients(kc)

\* setCurrentContext(name), called on the manager after construction
SetContextCall(name) ==
    /\ proc.state = "running"
    /\ mgr.state = "ok"
    /\ LET r == SetCurrentContext(mgr.kc, name)
       IN mgr' = [mgr EXCEPT
                    !.kc = r.kc,
                    !.clients = IF r.threw THEN @ ELSE RederiveClients(@, r.kc),
                    !.switch = [called |-> TRUE, name |-> name, threw |-> r.threw,
                                kcBefore |-> mgr.kc, clientsBefore |-> mgr.clients]]
    /\ UNCHANGED <<impl, env, inCluster, proc, files, listeners, nCtor, kubectl>>
    /\ UNCHANGED trackerVars
    /\ UNCHANGED sse

\* getDefaultNamespace(): process.env.K8S_NAMESPACE || 'default'
GetDefaultNamespaceTrimmed(e) ==
    IF NonBlank(e["K8S_NAMESPACE"]) THEN Trim(e["K8S_NAMESPACE"].text)
    ELSE <<"default">>

GetDefaultNamespace(e) ==
    IF Truthy(e["K8S_NAMESPACE"]) THEN e["K8S_NAMESPACE"].text ELSE <<"default">>

\* a tool asks the constructed manager for the default namespace
GetDefaultNamespaceCall ==
    /\ proc.state = "running"
    /\ mgr.state = "ok"
    /\ mgr' = [mgr EXCEPT !.nsCall = [called |-> TRUE,
                                      result |-> GetDefaultNamespace(env)]]
    /\ UNCHANGED <<impl, env, inCluster, proc, files, listeners, nCtor, kubectl>>
    /\ UNCHANGED trackerVars
    /\ UNCHANGED sse

\* fs.existsSync(process.env.KUBECONFIG)
FileExists(path, fs) ==
    \/ path = <<"file">>
    \/ \E f \in 1..Len(fs) : path = TmpPath(f) /\ fs[f].live

\* executeKubectlCommand(command): looks at the file KUBECONFIG names and
\* runs kubectl with a copy of process.env
ExecuteKubectlCommand ==
    /\ proc.state = "running"
    /\ ToolsServed
    /\ kubectl' = [kubectl EXCEPT
                     !.ran = TRUE,
                     !.passed = env["KUBECONFIG"],
                     !.exists = Truthy(env["KUBECONFIG"])
                                   /\ FileExists(env["KUBECONFIG"].text, files)]
    /\ UNCHANGED <<impl, env, inCluster, proc, files, listeners, mgr, nCtor>>
    /\ UNCHANGED trackerVars
    /\ UNCHANGED sse

(***************************************************************************)
(* Process exit and signals                                                *)
(***************************************************************************)
\* cleanupTempFile for file f; term says the call is part of a termination
CleanupTempFile(fs, f, term) ==
    [fs EXCEPT ![f] = [@ EXCEPT !.live = FALSE,
                                !.unlinks = IF fs[f].live THEN @ + 1 ELSE @,
                                !.termCalls = IF term THEN @ + 1 ELSE @]]

\* the listeners of one event, called in registration order
RECURSIVE RunListeners(_, _, _)
RunListeners(fs, ls, term) ==
    IF ls = <<>> THEN fs
    ELSE RunListeners(CleanupTempFile(fs, Head(ls), term), Tail(ls), term)

\* process.exit(): emits 'exit', then the process is gone
EmitExit(fs) == RunListeners(fs, listeners.exit, TRUE)

NormalExit ==
    /\ proc.state = "running"
    /\ files' = EmitExit(files)
    /\ proc' = [state |-> "exited", cause |-> "exit", exitEvent |-> TRUE]
    /\ UNCHANGED <<impl, env, inCluster, listeners, mgr, nCtor, kubectl>>
    /\ UNCHANGED trackerVars
    /\ UNCHANGED sse

\* SIGINT / SIGTERM: without a listener the default disposition kills the
\* process; with listeners the first one cleans its file and calls
\* process.exit(0), which never returns
TermSignal(sig) ==
    /\ proc.state = "running"
    /\ IF listeners[sig] = <<>>
       THEN /\ files' = files
            /\ proc' = [state |-> "exited", cause |-> sig, exitEvent |-> FALSE]
       ELSE /\ files' = EmitExit(CleanupTempFile(files, Head(listeners[sig]), TRUE))
            /\ proc' = [state |-> "exited", cause |-> sig, exitEvent |-> TRUE]
    /\ UNCHANGED <<impl, env, inCluster, listeners, mgr, nCtor, kubectl>>
    /\ UNCHANGED trackerVars
    /\ UNCHANGED sse

\* SIGUSR1 / SIGUSR2: every listener is cleanupTempFile and the process lives
\* on; without a listener SIGUSR2 kills the process and SIGUSR1 is left to
\* the runtime
UsrSignal(sig) ==
    /\ proc.state = "running"
    /\ IF listeners[sig] = <<>>
       THEN /\ files' = files
            /\ proc' = IF sig = "SIGUSR2"
                       THEN [state |-> "exited", cause |-> sig, exitEvent |-> FALSE]
                       ELSE proc
       ELSE /\ files' = RunListeners(files, listeners[sig], FALSE)
            /\ proc' = proc
    /\ UNCHANGED <<impl, env, inCluster, listeners, mgr, nCtor, kubectl>>
    /\ UNCHANGED trackerVars
    /\ UNCHANGED sse

(***************************************************************************)
(* Specification of the process: resolution, ephemeral files, termination  *)
(***************************************************************************)
\* the values K8S_SKIP_TLS_VERIFY takes where the minimal pair is set; it is
\* read nowhere else
TlsTexts == {Unset, Str(<<"true">>), Str(<<"false">>), Str(<<"TRUE">>)}

Env(yaml, json, server, token, path, kubeconfig, context, tls) ==
    [KUBECONFIG_YAML |-> yaml, KUBECONFIG_JSON |-> json, K8S_SERVER |-> server,
     K8S_TOKEN |-> token, KUBECONFIG_PATH |-> path, KUBECONFIG |-> kubeconfig,
     K8S_CONTEXT |-> context, K8S_SKIP_TLS_VERIFY |-> tls,
     K8S_NAMESPACE |-> Unset]

Init ==
    /\ impl \in Impls
    /\ inCluster \in BOOLEAN
    /\ \E yaml \in {Unset, Str(<<" ">>), Str(<<"doc">>), Str(<<"junk">>)},
          json \in {Unset, Str(<<"doc">>), Str(<<"junk">>)},
          server \in {Unset, Str(<<" ">>), Str(<<"srv">>)},
          token \in {Unset, Str(<<>>), Str(<<"tok">>)},
          path \in {Unset, Str(<<"file">>), Str(<<"junk">>)},
          kubeconfig \in {Unset, Str(<<"file">>)},
          context \in {Unset, Str(<<"ctx-b">>), Str(<<"junk">>)} :
          \E tls \in (IF NonBlank(server) /\ NonBlank(token)
                       THEN TlsTexts ELSE {Unset}) :
              env = Env(yaml, json, server, token, path, kubeconfig, context, tls)
    /\ proc = [state |-> "running", cause |-> "none", exitEvent |-> FALSE]
    /\ files = <<>>
    /\ listeners = [exit |-> <<>>, SIGINT |-> <<>>, SIGTERM |-> <<>>,
                    SIGUSR1 |-> <<>>, SIGUSR2 |-> <<>>]
    /\ mgr = NoManager
    /\ nCtor = 0
    /\ kubectl = NoKubectl
    /\ sse = NoSse
    /\ resources = <<>>
    /\ watches = <<>>
    /\ portForwards = <<>>
    /\ tasks = <<>>
    /\ apiLog = <<>>
    /\ nTrack = 0
    /\ pfCall = NoPfCall

Next ==
    \/ \E io \in IoOutcomes(impl) : Construct(io)
    \/ NormalExit
    \/ \E sig \in {"SIGINT", "SIGTERM"} : TermSignal(sig)
    \/ \E sig \in {"SIGUSR1", "SIGUSR2"} : UsrSignal(sig)

Spec == Init /\ [][Next]_vars

(***************************************************************************)
(* Specification of a session: resolutions, context switches and kubectl   *)
(* runs                                                                    *)
(***************************************************************************)
InitSession ==
    /\ impl \in Impls
    /\ inCluster \in BOOLEAN
    /\ \E yaml \in {Unset, Str(<<"doc">>)},
          pair \in {Unset, Str(<<"srv">>)},
          path \in {Unset, Str(<<"file">>)},
          kubeconfig \in {Unset, Str(<<"file">>)},
          context \in {Unset, Str(<<"ctx-b">>), Str(<<"junk">>)} :
          env = Env(yaml, Unset, pair, pair, path, kubeconfig, context, Unset)
    /\ proc = [state |-> "running", cause |-> "none", exitEvent |-> FALSE]
    /\ files = <<>>
    /\ listeners = [exit |-> <<>>, SIGINT |-> <<>>, SIGTERM |-> <<>>,
                    SIGUSR1 |-> <<>>, SIGUSR2 |-> <<>>]
    /\ mgr = NoManager
    /\ nCtor = 0
    /\ kubectl = NoKubectl
    /\ sse = NoSse
    /\ resources = <<>>
    /\ watches = <<>>
    /\ portForwards = <<>>
    /\ tasks = <<>>
    /\ apiLog = <<>>
    /\ nTrack = 0
    /\ pfCall = NoPfCall

NextSession ==
    \/ \E io \in IoOutcomes(impl) : Construct(io)
    \/ \E name \in ContextNames : SetContextCall(name)
    \/ ExecuteKubectlCommand
    \/ \E sig \in {"SIGUSR1", "SIGUSR2"} : UsrSignal(sig)

SpecSession == InitSession /\ [][NextSession]_vars

(***************************************************************************)
(* Specification of the default namespace: resolutions, context switches   *)
(* and getDefaultNamespace() calls                                         *)
(***************************************************************************)
NamespaceTexts == {Unset, Str(<<>>), Str(<<" ">>), Str(<<"my-ns">>)}

InitNamespace ==
    /\ impl \in Impls
    /\ inCluster \in BOOLEAN
    /\ \E yaml \in {Unset, Str(<<"doc">>)},
          pair \in {Unset, Str(<<"srv">>)},
          path \in {Unset, Str(<<"file">>)},
          context \in {Unset, Str(<<"ctx-b">>)},
          json \in {Unset, Str(<<"doc">>)},
          ns \in NamespaceTexts :
          env = [Env(yaml, json, pair, pair, path, Unset, context, Unset)
                    EXCEPT !["K8S_NAMESPACE"] = ns]
    /\ proc = [state |-> "running", cause |-> "none", exitEvent |-> FALSE]
    /\ files = <<>>
    /\ listeners = [exit |-> <<>>, SIGINT |-> <<>>, SIGTERM |-> <<>>,
                    SIGUSR1 |-> <<>>, SIGUSR2 |-> <<>>]
    /\ mgr = NoManager
    /\ nCtor = 0
    /\ kubectl = NoKubectl
    /\ sse = NoSse
    /\ resources = <<>>
    /\ watches = <<>>
    /\ portForwards = <<>>
    /\ tasks = <<>>
    /\ apiLog = <<>>
    /\ nTrack = 0
    /\ pfCall = NoPfCall

NextNamespace ==
    \/ Construct("ok")
    \/ \E name \in ContextNames : SetContextCall(name)
    \/ GetDefaultNamespaceCall

SpecNamespace == InitNamespace /\ [][NextNamespace]_vars

(***************************************************************************)
(* The resource tracker                                                    *)
(***************************************************************************)
Kinds == {"pod", "Pod", "configmap"}
Names == {"a"}
Namespaces == {"ns"}
Resources == [kind : Kinds, name : Names, namespace : Namespaces]

\* String.prototype.toLowerCase on the kinds in use
ToLowerCase(kind) ==
    CASE kind = "Pod" -> "pod"
      [] kind = "Deployment" -> "deployment"
      [] kind = "Service" -> "service"
      [] kind = "CronJob" -> "cronjob"
      [] OTHER -> kind

\* the switch of deleteResource: the API call a kind is deleted with
DeleteCallOfDefaultPod(kind) ==
    CASE ToLowerCase(kind) = "deployment" -> "deleteNamespacedDeployment"
      [] ToLowerCase(kind) = "service" -> "deleteNamespacedService"
      [] ToLowerCase(kind) = "cronjob" -> "deleteNamespacedCronJob"
      [] OTHER -> "deleteNamespacedPod"

DeleteCallOf(kind) ==
    CASE ToLowerCase(kind) = "pod" -> "deleteNamespacedPod"
      [] ToLowerCase(kind) = "deployment" -> "deleteNamespacedDeployment"
      [] ToLowerCase(kind) = "service" -> "deleteNamespacedService"
      [] ToLowerCase(kind) = "cronjob" -> "deleteNamespacedCronJob"
      [] OTHER -> "none"

Reverse(s) == [i \in 1..Len(s) |-> s[Len(s) + 1 - i]]

RECURSIVE FilterOut(_, _, _, _)
FilterOut(s, kind, name, namespace) ==
    IF s = <<>> THEN <<>>
    ELSE IF Head(s).kind = kind /\ Head(s).name = name /\ Head(s).namespace = namespace
         THEN FilterOut(Tail(s), kind, name, namespace)
         ELSE <<Head(s)>> \o FilterOut(Tail(s), kind, name, namespace)

\* this.resources.filter(r => !(r.kind === kind && r.name === name && ...))
Untrack(rs, kind, name, namespace) == FilterOut(rs, kind, name, namespace)

\* the order in which cleanup() walks the resources it finds
CleanupOrderForward(rs) == rs

CleanupOrder(rs) == Reverse(rs)

\* what cleanup() still has to do after a deletion threw
AfterFailedDeleteStop(queue) == <<>>

AfterFailedDelete(queue) == queue

\* trackResource(kind, name, namespace)
TrackResource(r) ==
    /\ nTrack < MaxResources
    /\ resources' = Append(resources, r)
    /\ nTrack' = nTrack + 1
    /\ UNCHANGED <<watches, portForwards, tasks, apiLog, pfCall>>
    /\ UNCHANGED procVars

\* trackWatch(watch)
TrackWatch ==
    /\ Len(watches) < MaxWatches
    /\ watches' = Append(watches, [id |-> Len(watches) + 1, aborted |-> FALSE,
                                   abortCalls |-> 0, cancelled |-> 0,
                                   finished |-> FALSE])
    /\ UNCHANGED <<resources, portForwards, tasks, apiLog, nTrack, pfCall>>
    /\ UNCHANGED procVars

\* watch.abort.abort(): the controller's signal becomes aborted and its abort
\* event fires, once; aborting an aborted controller changes nothing
AbortFiresEveryTime(w) ==
    [w EXCEPT !.aborted = TRUE, !.abortCalls = @ + 1, !.cancelled = @ + 1]

Abort(w) ==
    [w EXCEPT !.aborted = TRUE, !.abortCalls = @ + 1,
              !.cancelled = IF w.aborted THEN @ ELSE @ + 1]

\* the subscription of watch w ends by itself (the server closes the stream);
\* nobody tells the registry
WatchEnds(w) ==
    /\ w \in 1..Len(watches)
    /\ ~watches[w].finished
    /\ ~watches[w].aborted
    /\ watches' = [watches EXCEPT ![w].finished = TRUE]
    /\ UNCHANGED <<resources, portForwards, tasks, apiLog, nTrack, pfCall>>
    /\ UNCHANGED procVars

Call(r) == [e |-> "call", r |-> r, ok |-> TRUE]
Ret(r, ok) == [e |-> "ret", r |-> r, ok |-> ok]

\* a cleanup() call runs until it has to wait for the cluster API or until
\* its loop ends; st is [task, rs, log]: the call, this.resources, the API log
RECURSIVE RunCleanupLive(_)
RunCleanupLive(st) ==
    IF st.rs = <<>>
    THEN [st EXCEPT !.task.phase = "done"]
    ELSE LET r == st.rs[Len(st.rs)]
         IN IF DeleteCallOf(r.kind) # "none"
            THEN [task |-> [st.task EXCEPT !.phase = "awaiting",
                                           !.current = r,
                                           !.events = Append(@, Call(r))],
                  rs |-> st.rs,
                  log |-> Append(st.log, [call |-> DeleteCallOf(r.kind), r |-> r])]
            ELSE RunCleanupLive(
                   [task |-> [st.task EXCEPT !.events = @ \o <<Call(r), Ret(r, TRUE)>>],
                    rs |-> Untrack(st.rs, r.kind, r.name, r.namespace),
                    log |-> st.log])

RECURSIVE RunCleanup(_)
RunCleanup(st) ==
    IF st.task.queue = <<>>
    THEN [st EXCEPT !.task.phase = "done"]
    ELSE LET r == Head(st.task.queue)
         IN IF DeleteCallOf(r.kind) # "none"
            THEN [task |-> [st.task EXCEPT !.phase = "awaiting",
                                           !.current = r,
                                           !.queue = Tail(st.task.queue),
                                           !.events = Append(@, Call(r))],
                  rs |-> st.rs,
                  log |-> Append(st.log, [call |-> DeleteCallOf(r.kind), r |-> r])]
            ELSE RunCleanup(
                   [task |-> [st.task EXCEPT !.queue = Tail(st.task.queue),
                                             !.events = @ \o <<Call(r), Ret(r, TRUE)>>],
                    rs |-> Untrack(st.rs, r.kind, r.name, r.namespace),
                    log |-> st.log])

NoResource == [kind |-> "none", name |-> "none", namespace |-> "none"]

\* cleanup(): abort the watches, then walk a copy of this.resources; limit
\* bounds the cleanup() / deleteResource() calls of a behaviour
CleanupCall(limit) ==
    /\ Len(tasks) < limit
    /\ LET t == [op |-> "cleanup", snapshot |-> resources,
                 queue |-> CleanupOrder(resources), current |-> NoResource,
                 phase |-> "running", events |-> <<>>, raised |-> FALSE,
                 logged |-> 0]
           st == RunCleanup([task |-> t, rs |-> resources, log |-> apiLog])
       IN /\ tasks' = Append(tasks, st.task)
          /\ resources' = st.rs
          /\ apiLog' = st.log
    /\ watches' = [i \in 1..Len(watches) |-> Abort(watches[i])]
    /\ UNCHANGED <<portForwards, nTrack, pfCall>>
    /\ UNCHANGED procVars

Cleanup == CleanupCall(MaxTasks)

\* deleteResource(kind, name, namespace) called by a tool handler
DeleteResource(r) ==
    /\ Len(tasks) < MaxTasks
    /\ LET t == [op |-> "delete", snapshot |-> <<r>>, queue |-> <<>>,
                 current |-> r, phase |-> "running", events |-> <<Call(r)>>,
                 raised |-> FALSE, logged |-> 0]
       IN IF DeleteCallOf(r.kind) # "none"
          THEN /\ tasks' = Append(tasks, [t EXCEPT !.phase = "awaiting"])
               /\ apiLog' = Append(apiLog, [call |-> DeleteCallOf(r.kind), r |-> r])
               /\ resources' = resources
          ELSE /\ tasks' = Append(tasks, [t EXCEPT !.phase = "done",
                                                   !.events = Append(@, Ret(r, TRUE))])
               /\ apiLog' = apiLog
               /\ resources' = Untrack(resources, r.kind, r.name, r.namespace)
    /\ UNCHANGED <<watches, portForwards, nTrack, pfCall>>
    /\ UNCHANGED procVars

(***************************************************************************)
(* The port-forward registry                                               *)
(***************************************************************************)
PfIds == {"pf1", "pf2"}

\* this.portForwards.find(p => p.id === id): <<the first match>>, or <<>>
\* for undefined
Find(pfs, id) ==
    IF \E i \in 1..Len(pfs) : pfs[i].id = id
    THEN <<pfs[CHOOSE i \in 1..Len(pfs) :
                  /\ pfs[i].id = id
                  /\ \A j \in 1..(i - 1) : pfs[j].id # id]>>
    ELSE <<>>

RECURSIVE FilterPfKeepMatching(_, _)
FilterPfKeepMatching(pfs, id) ==
    IF pfs = <<>> THEN <<>>
    ELSE IF Head(pfs).id = id
         THEN <<Head(pfs)>> \o FilterPfKeepMatching(Tail(pfs), id)
         ELSE FilterPfKeepMatching(Tail(pfs), id)

\* this.portForwards.filter(p => p.id !== id)
RECURSIVE FilterPf(_, _)
FilterPf(pfs, id) ==
    IF pfs = <<>> THEN <<>>
    ELSE IF Head(pfs).id # id
         THEN <<Head(pfs)>> \o FilterPf(Tail(pfs), id)
         ELSE FilterPf(Tail(pfs), id)

\* trackPortForward(pf)
TrackPortForward(id) ==
    /\ Len(portForwards) < MaxPortForwards
    /\ portForwards' = Append(portForwards, [id |-> id])
    /\ UNCHANGED <<resources, watches, tasks, apiLog, nTrack, pfCall>>
    /\ UNCHANGED procVars

\* getPortForward(id)
GetPortForward(id) ==
    /\ pfCall' = [pfCall EXCEPT !.get =
                      [called |-> TRUE, id |-> id, before |-> portForwards,
                       result |-> Find(portForwards, id), raised |-> FALSE]]
    /\ UNCHANGED <<resources, watches, portForwards, tasks, apiLog, nTrack>>
    /\ UNCHANGED procVars

\* removePortForward(id)
RemovePortForward(id) ==
    /\ portForwards' = FilterPf(portForwards, id)
    /\ pfCall' = [pfCall EXCEPT !.remove =
                      [called |-> TRUE, id |-> id, before |-> portForwards,
                       after |-> FilterPf(portForwards, id), raised |-> FALSE]]
    /\ UNCHANGED <<resources, watches, tasks, apiLog, nTrack>>
    /\ UNCHANGED procVars

\* the cluster API answers the delete call task i is waiting for
ApiReturn(i, ok) ==
    /\ i \in 1..Len(tasks)
    /\ tasks[i].phase = "awaiting"
    /\ LET t == tasks[i]
           r == t.current
           rs == IF ok THEN Untrack(resources, r.kind, r.name, r.namespace)
                 ELSE resources
       IN IF t.op = "delete"
          THEN /\ tasks' = [tasks EXCEPT ![i] =
                              [t EXCEPT !.phase = "done",
                                        !.raised = ~ok,
                                        !.events = Append(@, Ret(r, ok))]]
               /\ resources' = rs
               /\ apiLog' = apiLog
          ELSE LET t1 == [t EXCEPT !.events = Append(@, Ret(r, ok)),
                                   !.logged = IF ok THEN @ ELSE @ + 1,
                                   !.queue = IF ok THEN @ ELSE AfterFailedDelete(@),
                                   !.phase = "running"]
                   st == RunCleanup([task |-> t1, rs |-> rs, log |-> apiLog])
               IN /\ tasks' = [tasks EXCEPT ![i] = st.task]
                  /\ resources' = st.rs
                  /\ apiLog' = st.log
    /\ UNCHANGED <<watches, portForwards, nTrack, pfCall>>
    /\ UNCHANGED procVars

(***************************************************************************)
(* Specification of the registries of one constructed manager              *)
(***************************************************************************)
InitTracker ==
    /\ impl = "manager"
    /\ inCluster = FALSE
    /\ env = Env(Unset, Unset, Unset, Unset, Unset, Unset, Unset, Unset)
    /\ proc = [state |-> "running", cause |-> "none", exitEvent |-> FALSE]
    /\ files = <<>>
    /\ listeners = [exit |-> <<>>, SIGINT |-> <<>>, SIGTERM |-> <<>>,
                    SIGUSR1 |-> <<>>, SIGUSR2 |-> <<>>]
    /\ mgr = [NoManager EXCEPT !.state = "ok", !.source = "default",
                               !.loaded = <<"default">>,
                               !.kcCalls = <<"loadFromDefault">>,
                               !.kc = DocConfig("default"),
                               !.loadedKc = DocConfig("default"),
                               !.clients = MakeApiClients(DocConfig("default"))]
    /\ nCtor = 1
    /\ kubectl = StartServing(NoKubectl, TRUE)
    /\ sse = NoSse
    /\ resources = <<>>
    /\ watches = <<>>
    /\ portForwards = <<>>
    /\ tasks = <<>>
    /\ apiLog = <<>>
    /\ nTrack = 0
    /\ pfCall = NoPfCall

NextTracker ==
    \/ \E r \in Resources : TrackResource(r)
    \/ TrackWatch
    \/ Cleanup
    \/ \E r \in Resources : DeleteResource(r)
    \/ \E i \in 1..MaxTasks, ok \in BOOLEAN : ApiReturn(i, ok)

SpecTracker == InitTracker /\ [][NextTracker]_vars

(***************************************************************************)
(* Specification of the three registries under repeated cleanup()          *)
(***************************************************************************)
RegistryResources == {[kind |-> "pod", name |-> "a", namespace |-> "ns"]}

NextRegistry ==
    \/ \E r \in RegistryResources : nTrack < MaxTracked /\ TrackResource(r)
    \/ TrackWatch
    \/ \E w \in 1..MaxWatches : WatchEnds(w)
    \/ TrackPortForward("pf1")
    \/ CleanupCall(MaxCleanups)
    \/ \E i \in 1..MaxCleanups, ok \in BOOLEAN : ApiReturn(i, ok)

SpecRegistry == InitTracker /\ [][NextRegistry]_vars

(***************************************************************************)
(* Specification of the port-forward registry                              *)
(***************************************************************************)
NextPortForward ==
    \/ \E id \in PfIds : TrackPortForward(id)
    \/ \E id \in PfIds : GetPortForward(id)
    \/ \E id \in PfIds : RemovePortForward(id)

SpecPortForward == InitTracker /\ [][NextPortForward]_vars

(***************************************************************************)
(* Specification of overlapping cleanup() and deleteResource() calls, with *)
(* the creation time of every tracked entry                                *)
(***************************************************************************)
\* { kind, name, namespace, createdAt: new Date() }: the entry trackResource
\* pushes; the clock is the number of entries tracked so far
Stamp(r, t) ==
    [kind |-> r.kind, name |-> r.name, namespace |-> r.namespace, createdAt |-> t]

NextOverlap ==
    \/ \E r \in Resources :
          nTrack < MaxStamped /\ TrackResource(Stamp(r, nTrack + 1))
    \/ CleanupCall(MaxPasses)
    \/ \E r \in Resources : DeleteResource(r)
    \/ \E i \in 1..MaxPasses, ok \in BOOLEAN : ApiReturn(i, ok)

SpecOverlap == InitTracker /\ [][NextOverlap]_vars

(***************************************************************************)
(* The SSE front end: GET /sse and POST /messages                          *)
(***************************************************************************)
\* transports.find((t) => t.sessionId === req.query.sessionId): the index of
\* the first match, 0 for undefined
FindTransport(ts, sid) ==
    IF \E t \in 1..Len(ts) : ts[t].sessionId = sid
    THEN CHOOSE t \in 1..Len(ts) :
            /\ ts[t].sessionId = sid
            /\ \A u \in 1..(t - 1) : ts[u].sessionId # sid
    ELSE 0

\* GET /sse: a transport with a fresh session id is pushed and the server
\* is connected to it; the response stays open as the event stream
GetSse ==
    /\ proc.state = "running"
    /\ Len(sse.transports) < MaxSessions
    /\ sse' = [sse EXCEPT !.transports =
                  Append(@, [sessionId |-> Len(sse.transports) + 1, open |-> TRUE])]
    /\ UNCHANGED <<impl, env, inCluster, proc, files, listeners, mgr, nCtor, kubectl>>
    /\ UNCHANGED trackerVars

\* the client of transport t goes away and its event stream is closed; no
\* handler of the front end runs
StreamCloses(t) ==
    /\ proc.state = "running"
    /\ t \in 1..Len(sse.transports)
    /\ sse.transports[t].open
    /\ sse' = [sse EXCEPT !.transports[t].open = FALSE]
    /\ UNCHANGED <<impl, env, inCluster, proc, files, listeners, mgr, nCtor, kubectl>>
    /\ UNCHANGED trackerVars

\* POST /messages?sessionId=sid: handed to the transport found, which
\* writes the answer, or answered 404; sid 0 is an id no transport has
PostMessages(sid) ==
    /\ proc.state = "running"
    /\ Len(sse.posts) < MaxPosts
    /\ LET t == FindTransport(sse.transports, sid)
       IN sse' = [sse EXCEPT !.posts =
                    Append(@, IF t # 0
                              THEN [sessionId |-> sid, handledBy |-> t,
                                    status |-> "transport",
                                    open |-> sse.transports[t].open]
                              ELSE [sessionId |-> sid, handledBy |-> 0,
                                    status |-> "404", open |-> FALSE])]
    /\ UNCHANGED <<impl, env, inCluster, proc, files, listeners, mgr, nCtor, kubectl>>
    /\ UNCHANGED trackerVars

NextSse ==
    \/ GetSse
    \/ \E t \in 1..MaxSessions : StreamCloses(t)
    \/ \E sid \in 0..MaxSessions : PostMessages(sid)

SpecSse == InitTracker /\ [][NextSse]_vars

(***************************************************************************)
(* Properties of the resolution                                            *)
(***************************************************************************)
LiveFiles == {f \in 1..Len(files) : files[f].live}
RegisteredFiles == {f \in 1..Len(files) : files[f].registered}
Constructed == mgr.state # "none"

\* the documented priority order and what makes each source match
DocumentedOrder == <<"cluster", "yaml", "json", "minimal", "path", "default">>

SourceMatches(s) ==
    CASE s = "cluster" -> inCluster
      [] s = "yaml" -> NonBlank(env["KUBECONFIG_YAML"])
      [] s = "json" -> NonBlank(env["KUBECONFIG_JSON"])
      [] s = "minimal" -> NonBlank(env["K8S_SERVER"]) /\ NonBlank(env["K8S_TOKEN"])
      [] s = "path" -> NonBlank(env["KUBECONFIG_PATH"])
      [] s = "default" -> TRUE

FirstMatching ==
    DocumentedOrder[CHOOSE i \in 1..Len(DocumentedOrder) :
        /\ SourceMatches(DocumentedOrder[i])
        /\ \A j \in 1..(i - 1) : ~SourceMatches(DocumentedOrder[j])]

KcMethodOf(s) ==
    CASE s = "cluster" -> "loadFromCluster"
      [] s = "yaml" -> "loadFromString"
      [] s = "json" -> "loadFromOptions"
      [] s = "minimal" -> "loadFromOptions"
      [] s = "path" -> "loadFromFile"
      [] s = "kubeconfig" -> "loadFromFile"
      [] s = "default" -> "loadFromDefault"

\* C1: the constructor of kubernetes-manager.ts performs exactly one
\* configuration load, that of the first source that matches in the order
\* in-cluster, KUBECONFIG_YAML, KUBECONFIG_JSON, K8S_SERVER + K8S_TOKEN,
\* KUBECONFIG_PATH, default; no KubeConfig load method of another source is
\* called.
C1_FirstMatchingSourceOnly ==
    (impl = "manager" /\ Constructed) =>
        /\ mgr.loaded = <<FirstMatching>>
        /\ mgr.source = FirstMatching
        /\ Len(mgr.kcCalls) <= 1
        /\ \A i \in 1..Len(mgr.kcCalls) : mgr.kcCalls[i] = KcMethodOf(FirstMatching)

\* the minimal pair and KUBECONFIG_PATH are both set: loadFromOptions is
\* called and loadFromFile is not
C1_Witness ==
    /\ impl = "manager"
    /\ mgr.state = "ok"
    /\ mgr.source = "minimal"
    /\ NonBlank(env["KUBECONFIG_PATH"])
    /\ mgr.kcCalls = <<"loadFromOptions">>

\* C2: whenever the service-account token file exists, the constructor loads
\* the in-cluster configuration and no other source, whatever else is set
\* (stated for the three copies of the constructor).
C2_InClusterAlwaysWins ==
    (inCluster /\ Constructed) =>
        /\ mgr.loaded = <<"cluster">>
        /\ mgr.kcCalls = <<"loadFromCluster">>

SourceVar(s) == IF s = "yaml" THEN "KUBECONFIG_YAML" ELSE "KUBECONFIG_JSON"

\* C3: when KUBECONFIG_YAML or KUBECONFIG_JSON is the selected source and its
\* content does not parse, construction fails with the error naming that
\* source, and nothing of a lower-priority source is loaded.
C3_InvalidSelectedSourceIsFatal ==
    (/\ Constructed
     /\ mgr.source \in {"yaml", "json"}
     /\ ~ParsesAsDoc(env[SourceVar(mgr.source)].text)) =>
        /\ mgr.state = "threw"
        /\ mgr.error.prefix = (IF mgr.source = "yaml"
                               THEN "Failed to parse KUBECONFIG_YAML"
                               ELSE "Failed to parse KUBECONFIG_JSON")
        /\ mgr.loaded = <<mgr.source>>
        /\ mgr.kc = NoConfig
        /\ \A i \in 1..Len(mgr.kcCalls) : mgr.kcCalls[i] = KcMethodOf(mgr.source)

\* invalid KUBECONFIG_JSON with a loadable KUBECONFIG_PATH behind it
C3_Witness ==
    /\ mgr.state = "threw"
    /\ mgr.source = "json"
    /\ mgr.error.prefix = "Failed to parse KUBECONFIG_JSON"
    /\ env["KUBECONFIG_PATH"] = Str(<<"file">>)

\* C4: if writing the ephemeral file fails (sources 2-4), the constructor
\* still completes with a usable configuration and API clients.
C4_MaterializationFailureNotFatal ==
    (Constructed /\ mgr.tempTried /\ ~mgr.tempOk) =>
        /\ mgr.state = "ok"
        /\ mgr.clients = MakeApiClients(mgr.kc)

\* the configuration a kubeconfig text denotes
TextContexts(text) ==
    IF Trim(text) = <<"doc">> THEN DocConfig("text").contexts
    ELSE IF Trim(text) = <<"envdoc">> THEN MinimalConfig(env).contexts
    ELSE {}

TextCurrent(text) ==
    IF Trim(text) = <<"doc">> THEN DocConfig("text").current
    ELSE IF Trim(text) = <<"envdoc">> THEN MinimalConfig(env).current
    ELSE <<>>

HasBoundTempFile ==
    /\ mgr.file # 0
    /\ files[mgr.file].registered
    /\ files[mgr.file].dir = "tmpdir"
    /\ env["KUBECONFIG"] = Str(TmpPath(mgr.file))

C6_ExactlyOneLiveFile ==
    (/\ proc.state = "running"
     /\ RegisteredFiles # {}
     /\ \A f \in RegisteredFiles : files[f].unlinks = 0) =>
        \E f \in 1..Len(files) :
            /\ LiveFiles = {f}
            /\ env["KUBECONFIG"] = Str(TmpPath(f))

\* C7: after SIGINT or SIGTERM the process has exited and no ephemeral file
\* it created is left on disk.
C7_SignalRemovesEveryFile ==
    (proc.state = "exited" /\ proc.cause \in {"SIGINT", "SIGTERM"}) =>
        LiveFiles = {}

CleanupTasks == {i \in 1..Len(tasks) : tasks[i].op = "cleanup"}
IsCall(e) == e.e = "call"
IsFailedRet(e) == e.e = "ret" /\ ~e.ok

\* the resources cleanup() call i has called deleteResource for, in order
Attempts(i) ==
    LET cs == SelectSeq(tasks[i].events, IsCall)
    IN [k \in 1..Len(cs) |-> cs[k].r]

\* C9: a cleanup() call issues the deletions of the resources tracked at its
\* start in reverse insertion order, and one at a time: every deletion has
\* returned (successfully or not) before the next one is issued.
C9_ReverseOrderOneAtATime ==
    \A i \in CleanupTasks :
        LET n == Len(tasks[i].snapshot)
            ev == tasks[i].events
        IN /\ Len(Attempts(i)) <= n
           /\ \A k \in 1..Len(Attempts(i)) :
                 Attempts(i)[k] = tasks[i].snapshot[n + 1 - k]
           /\ \A k \in 1..Len(ev) :
                 /\ IsCall(ev[k]) <=> (k % 2 = 1)
                 /\ ~IsCall(ev[k]) => ev[k].r = ev[k - 1].r

\* three different resources A, B, C were tracked and deleted as C, B, A,
\* one of the deletions failing
C9_Witness ==
    \E i \in CleanupTasks :
        /\ tasks[i].phase = "done"
        /\ Len(tasks[i].snapshot) = 3
        /\ Cardinality({tasks[i].snapshot[k] : k \in 1..3}) = 3
        /\ Attempts(i) = <<tasks[i].snapshot[3], tasks[i].snapshot[2], tasks[i].snapshot[1]>>
        /\ \E k \in 1..Len(tasks[i].events) : IsFailedRet(tasks[i].events[k])

\* C10: a failed deletion is logged and not propagated, and the rest is still
\* attempted: a cleanup() call never raises and, when it ends, it has called
\* deleteResource for every resource tracked at its start.
C10_FullPassDespiteFailures ==
    \A i \in CleanupTasks :
        /\ ~tasks[i].raised
        /\ tasks[i].phase \in {"awaiting", "done"}
        /\ tasks[i].logged = Len(SelectSeq(tasks[i].events, IsFailedRet))
        /\ tasks[i].phase = "done" =>
              /\ Len(Attempts(i)) = Len(tasks[i].snapshot)
              /\ \A k \in 1..Len(tasks[i].snapshot) :
                    \E j \in 1..Len(Attempts(i)) : Attempts(i)[j] = tasks[i].snapshot[k]
              /\ tasks[i].events = <<>> \/ ~IsCall(tasks[i].events[Len(tasks[i].events)])

\* the first deletion of three failed and the other two were still attempted
C10_Witness ==
    \E i \in CleanupTasks :
        /\ tasks[i].phase = "done"
        /\ Len(tasks[i].snapshot) = 3
        /\ Len(tasks[i].events) >= 2
        /\ IsFailedRet(tasks[i].events[2])
        /\ Len(Attempts(i)) = 3
        /\ tasks[i].logged >= 1

(***************************************************************************)
(* Properties of deleteResource() and of the registries                    *)
(***************************************************************************)
\* the deleteResource() call i returns or raises in this step
DeleteCompletes(i) ==
    /\ tasks'[i].op = "delete"
    /\ tasks'[i].phase = "done"
    /\ (i > Len(tasks) \/ tasks[i].phase # "done")

\* C11: when a deleteResource(kind, name, namespace) call ends, whether the
\* delete sent to the cluster succeeded or failed, no tracked entry with that
\* kind, name and namespace is left.
C11_DeleteUntracksWhateverOutcome ==
    [][\A i \in 1..Len(tasks') :
          DeleteCompletes(i) =>
              \A k \in 1..Len(resources') : resources'[k] # tasks'[i].current]_vars

\* the cleanup() call i ends in this step
CleanupCompletes(i) ==
    /\ tasks'[i].op = "cleanup"
    /\ tasks'[i].phase = "done"
    /\ (i > Len(tasks) \/ tasks[i].phase # "done")

AllDeletionsSucceeded(t) == \A k \in 1..Len(t.events) : ~IsFailedRet(t.events[k])

\* C12: when a cleanup() call ends and every deletion it made succeeded, the
\* resource registry, the watch registry and the port-forward registry are
\* all empty.
C12_CleanupDrainsAllRegistries ==
    [][\A i \in 1..Len(tasks') :
          (CleanupCompletes(i) /\ AllDeletionsSucceeded(tasks'[i])) =>
              /\ resources' = <<>>
              /\ watches' = <<>>
              /\ portForwards' = <<>>]_vars

\* a cleanup() call starts in this step
CleanupStarts ==
    /\ Len(tasks') = Len(tasks) + 1
    /\ tasks'[Len(tasks')].op = "cleanup"

TrackedId(pfs, id) == \E i \in 1..Len(pfs) : pfs[i].id = id

\* C19: getPortForward(id) for an id that is not tracked returns undefined
\* and does not raise; removePortForward(id) for an id that is not tracked
\* leaves the registry with the entries it had, in the same order.
C19_UntrackedGetAndRemove ==
    /\ (pfCall.get.called /\ ~TrackedId(pfCall.get.before, pfCall.get.id)) =>
          /\ pfCall.get.result = <<>>
          /\ ~pfCall.get.raised
    /\ (pfCall.remove.called
          /\ ~TrackedId(pfCall.remove.before, pfCall.remove.id)) =>
          /\ pfCall.remove.after = pfCall.remove.before
          /\ ~pfCall.remove.raised

\* a registry holding two entries of another id was asked for, and asked to
\* remove, an id it does not hold
C19_Witness ==
    /\ pfCall.get.called
    /\ Len(pfCall.get.before) = 2
    /\ ~TrackedId(pfCall.get.before, pfCall.get.id)
    /\ pfCall.remove.called
    /\ Len(pfCall.remove.before) = 2
    /\ ~TrackedId(pfCall.remove.before, pfCall.remove.id)
    /\ portForwards = pfCall.remove.before

(***************************************************************************)
(* Properties of the context override and of the source predicates         *)
(***************************************************************************)
\* the constructor got as far as the context override: the selected source
\* was loaded and, where a file is written, written
ReachedOverride ==
    /\ Constructed
    /\ mgr.loadedKc # NoConfig
    /\ mgr.tempTried => mgr.tempOk

\* C14: when K8S_CONTEXT is set to a name that is not a context of the
\* configuration just loaded, the constructor completes, the current context
\* is the one the loaded configuration had, the clients are bound to it, and
\* a warning is written; for every source and every copy of the constructor.
C14_UnknownContextOverrideNotFatal ==
    (/\ ReachedOverride
     /\ Truthy(env["K8S_CONTEXT"])
     /\ env["K8S_CONTEXT"].text \notin mgr.loadedKc.contexts) =>
        /\ mgr.state = "ok"
        /\ mgr.warned
        /\ mgr.kc = mgr.loadedKc
        /\ mgr.clients = MakeApiClients(mgr.loadedKc)

\* K8S_CONTEXT names a context of other kubeconfigs, the minimal pair has
\* only env-context
C14_Witness ==
    /\ mgr.state = "ok"
    /\ mgr.source = "minimal"
    /\ env["K8S_CONTEXT"] = Str(<<"ctx-b">>)
    /\ mgr.warned
    /\ mgr.kc.current = <<"env-context">>

\* the variable is unset, empty, or made of whitespace only
AllBlank(v) == ~v.isSet \/ \A i \in 1..Len(v.text) : v.text[i] = " "

\* nothing but default discovery matches; the KUBECONFIG branch exists only
\* in the constructor of kubectl-operations.ts
OnlyDefaultMatches ==
    /\ ~inCluster
    /\ AllBlank(env["KUBECONFIG_YAML"])
    /\ AllBlank(env["KUBECONFIG_JSON"])
    /\ AllBlank(env["K8S_SERVER"]) \/ AllBlank(env["K8S_TOKEN"])
    /\ AllBlank(env["KUBECONFIG_PATH"])
    /\ impl = "kubectl_ops" => AllBlank(mgr.envBefore)

\* C16: a source whose variable is unset, empty or whitespace-only is never
\* selected, and the minimal pair is selected only when K8S_SERVER and
\* K8S_TOKEN both hold a non-blank character; a source that does not match is
\* passed over without an error, so when nothing but default discovery
\* matches (for instance with one of the pair set) the constructor loads the
\* default configuration and completes.
C16_BlankVariableNeverSelects ==
    Constructed =>
        /\ mgr.source = "yaml" => ~AllBlank(env["KUBECONFIG_YAML"])
        /\ mgr.source = "json" => ~AllBlank(env["KUBECONFIG_JSON"])
        /\ mgr.source = "minimal" =>
              ~AllBlank(env["K8S_SERVER"]) /\ ~AllBlank(env["K8S_TOKEN"])
        /\ mgr.source = "path" => ~AllBlank(env["KUBECONFIG_PATH"])
        /\ mgr.source = "kubeconfig" => ~AllBlank(mgr.envBefore)
        /\ OnlyDefaultMatches =>
              /\ mgr.source = "default"
              /\ mgr.kcCalls = <<"loadFromDefault">>
              /\ mgr.state = "ok"
              /\ mgr.error = [prefix |-> "none", cause |-> "none"]

\* K8S_SERVER is set, K8S_TOKEN is the empty string and KUBECONFIG_YAML is
\* whitespace: default discovery
C16_Witness ==
    /\ mgr.state = "ok"
    /\ mgr.source = "default"
    /\ ~AllBlank(env["K8S_SERVER"])
    /\ env["K8S_TOKEN"] = Str(<<>>)
    /\ env["KUBECONFIG_YAML"] = Str(<<" ">>)

(***************************************************************************)
(* Properties of the minimal configuration                                 *)
(***************************************************************************)
\* the constructor selected the minimal pair and loaded it
MinimalLoaded ==
    /\ Constructed
    /\ mgr.source = "minimal"
    /\ mgr.loadedKc # NoConfig

\* the variable holds exactly the four characters t r u e
IsLiteralTrue(v) == v.isSet /\ Len(v.text) = 1 /\ v.text[1] = "true"

\* C17: with the minimal pair selected, the cluster of the loaded
\* configuration skips TLS verification exactly when K8S_SKIP_TLS_VERIFY is
\* the string "true"; unset, "false" and any other value enforce it.
C17_SkipTlsOnlyOnLiteralTrue ==
    MinimalLoaded =>
        /\ mgr.loadedKc.clusters # {}
        /\ \A c \in mgr.loadedKc.clusters :
              c.skipTLSVerify <=> IsLiteralTrue(env["K8S_SKIP_TLS_VERIFY"])
        /\ mgr.state = "ok" => mgr.kc.clusters = mgr.loadedKc.clusters

\* K8S_SKIP_TLS_VERIFY is "false": verification is enforced
C17_Witness ==
    /\ MinimalLoaded
    /\ mgr.state = "ok"
    /\ env["K8S_SKIP_TLS_VERIFY"] = Str(<<"false">>)
    /\ \A c \in mgr.kc.clusters : ~c.skipTLSVerify

\* C18: with the minimal pair selected, the loaded configuration is one
\* cluster env-cluster whose server is K8S_SERVER, one user env-user whose
\* token is K8S_TOKEN, and one context env-context that refers to the two,
\* and env-context is the current context.
C18_MinimalConfigIsOneTriple ==
    MinimalLoaded =>
        /\ Cardinality(mgr.loadedKc.clusters) = 1
        /\ \A c \in mgr.loadedKc.clusters :
              c.name = "env-cluster" /\ c.server = env["K8S_SERVER"].text
        /\ Cardinality(mgr.loadedKc.users) = 1
        /\ \A u \in mgr.loadedKc.users :
              u.name = "env-user" /\ u.token = env["K8S_TOKEN"].text
        /\ mgr.loadedKc.contexts = {<<"env-context">>}
        /\ mgr.loadedKc.links =
              {[name |-> <<"env-context">>, cluster |-> "env-cluster",
                user |-> "env-user"]}
        /\ mgr.loadedKc.current = <<"env-context">>
        /\ mgr.state = "ok" => mgr.kc = mgr.loadedKc

\* the pair is set next to a K8S_CONTEXT naming a context of other kubeconfigs
C18_Witness ==
    /\ MinimalLoaded
    /\ mgr.state = "ok"
    /\ env["K8S_SERVER"] = Str(<<"srv">>)
    /\ env["K8S_TOKEN"] = Str(<<"tok">>)
    /\ env["K8S_CONTEXT"] = Str(<<"ctx-b">>)
    /\ mgr.kc.current = <<"env-context">>
    /\ \E c \in mgr.kc.clusters : c.server = <<"srv">>

(***************************************************************************)
(* Properties of the session: context switches and the KUBECONFIG binding  *)
(***************************************************************************)
\* every one of the three clients is bound to context c
ClientsBoundTo(c) ==
    /\ mgr.clients.core = c
    /\ mgr.clients.apps = c
    /\ mgr.clients.batch = c

\* C15: on a constructed manager, after any number of setCurrentContext
\* calls, the three clients are bound to the configuration's current context;
\* a switch to a context of the configuration makes it current and the three
\* clients are bound to it, and a switch to any other name raises and leaves
\* the configuration and the three clients as they were.
C15_ClientsFollowCurrentContext ==
    mgr.state = "ok" =>
        /\ ClientsBoundTo(mgr.kc.current)
        /\ mgr.kc.current \in mgr.kc.contexts
        /\ mgr.switch.called =>
              IF mgr.switch.name \in mgr.switch.kcBefore.contexts
              THEN /\ ~mgr.switch.threw
                   /\ mgr.kc.current = mgr.switch.name
                   /\ mgr.kc.contexts = mgr.switch.kcBefore.contexts
                   /\ ClientsBoundTo(mgr.switch.name)
              ELSE /\ mgr.switch.threw
                   /\ mgr.kc = mgr.switch.kcBefore
                   /\ mgr.clients = mgr.switch.clientsBefore

\* the manager was switched from ctx-a to ctx-b, and then a switch to an
\* unknown name was refused
C15_Witness ==
    /\ mgr.state = "ok"
    /\ mgr.loadedKc.current = <<"ctx-a">>
    /\ ~Truthy(env["K8S_CONTEXT"])
    /\ mgr.switch.called
    /\ mgr.switch.threw
    /\ mgr.switch.name = <<"junk">>
    /\ mgr.kc.current = <<"ctx-b">>
    /\ ClientsBoundTo(<<"ctx-b">>)

\* this step is a construction
ConstructStep == nCtor' = nCtor + 1

\* this step is a run of executeKubectlCommand
KubectlStep == nCtor' = nCtor /\ kubectl' # kubectl

ConstructorRaised == mgr.state = "threw"

\* the listeners registered for file f, over the five events
ListenersFor(f) ==
    {ev \in {"exit", "SIGINT", "SIGTERM", "SIGUSR1", "SIGUSR2"} :
        \E k \in 1..Len(listeners[ev]) : listeners[ev][k] = f}

\* C30: whenever the constructor raises, no ephemeral file created during
\* that construction remains on disk, no exit or signal handler is
\* registered for it, and KUBECONFIG has the value it had before the
\* construction.
C30_FailedConstructionLeavesNothing ==
    (impl = "manager" /\ ConstructorRaised) =>
        /\ mgr.file # 0 => ~files[mgr.file].live
        /\ mgr.file # 0 => ListenersFor(mgr.file) = {}
        /\ env["KUBECONFIG"] = mgr.envBefore

(***************************************************************************)
(* C25: the file KUBECONFIG names exists while the process runs            *)
(***************************************************************************)
\* the ephemeral files, bound by a construction, that KUBECONFIG names
BoundFiles(e) ==
    {f \in 1..Len(files) : files[f].registered /\ e = Str(TmpPath(f))}

\* C25: while the process is running and KUBECONFIG refers to an ephemeral
\* file created by the manager, that file exists, and every kubectl
\* execution that was handed such a file found it existing.
C25_BoundFileExistsWhileRunning ==
    /\ proc.state = "running" =>
          \A f \in BoundFiles(env["KUBECONFIG"]) : files[f].live
    /\ (kubectl.ran /\ BoundFiles(kubectl.passed) # {}) => kubectl.exists

(***************************************************************************)
(* C22: where and how the ephemeral file is written                        *)
(***************************************************************************)

\* C22: every ephemeral credential file is created inside the platform
\* temporary directory with mode 0600, and no file that holds a credential
\* text, whether the write completed or not, has any other mode.
C22_OwnerOnlyInTmpDir ==
    \A f \in 1..Len(files) :
        /\ files[f].dir = "tmpdir"
        /\ TmpPath(f)[1] = files[f].dir
        /\ files[f].mode = "0600"

\* a construction wrote a credential text to a file, bound it, and the file
\* is still on disk
C22_Witness ==
    \E f \in 1..Len(files) :
        /\ files[f].live
        /\ files[f].registered
        /\ files[f].text \in {<<"doc">>, <<"envdoc">>}
        /\ env["KUBECONFIG"] = Str(TmpPath(f))

(***************************************************************************)
(* C26, C27: the kind in deleteResource()                                  *)
(***************************************************************************)
\* entry e is for the name and namespace of r and its kind is r's kind, letter
\* case ignored
SameIgnoringCase(e, r) ==
    /\ ToLowerCase(e.kind) = ToLowerCase(r.kind)
    /\ e.name = r.name
    /\ e.namespace = r.namespace

\* C26: when a deleteResource(kind, name, namespace) call returns without
\* raising, no tracked entry is left for that name and namespace whose kind
\* equals the given kind ignoring letter case.
C26_UntrackIgnoresLetterCase ==
    [][\A i \in 1..Len(tasks') :
          (DeleteCompletes(i) /\ ~tasks'[i].raised) =>
              \A k \in 1..Len(resources') :
                  ~SameIgnoringCase(resources'[k], tasks'[i].current)]_vars

\* the kinds deleteResource() has a delete operation for
DeletableKinds == {"pod", "deployment", "service", "cronjob"}

UnknownKind(kind) == ToLowerCase(kind) \notin DeletableKinds

\* the events call i records in this step
NewEvents(i) ==
    {k \in 1..Len(tasks'[i].events) : i > Len(tasks) \/ k > Len(tasks[i].events)}

\* C27: for a kind outside pod, deployment, service and cronjob (letter case
\* ignored) deleteResource sends no delete to the cluster, raises nothing
\* and removes the matching tracked entries, whether a tool or cleanup()
\* calls it: the cluster API is never asked to delete such a resource.
C27_UnknownKindUntrackedNotDeleted ==
    [][/\ \A k \in 1..Len(apiLog') : ~UnknownKind(apiLog'[k].r.kind)
       /\ \A i \in 1..Len(tasks') : \A k \in NewEvents(i) :
             LET ev == tasks'[i].events[k]
             IN (IsCall(ev) /\ UnknownKind(ev.r.kind)) =>
                   /\ k < Len(tasks'[i].events)
                   /\ tasks'[i].events[k + 1] = Ret(ev.r, TRUE)
                   /\ ~tasks'[i].raised
                   /\ \A n \in 1..Len(resources') : resources'[n] # ev.r]_vars

\* a cleanup() call that found a tracked configmap has ended: the configmap
\* is no longer tracked and the cluster was not asked to delete it
C27_Witness ==
    \E i \in 1..Len(tasks) :
        /\ tasks[i].op = "cleanup"
        /\ tasks[i].phase = "done"
        /\ \E k \in 1..Len(tasks[i].snapshot) : UnknownKind(tasks[i].snapshot[k].kind)
        /\ \A n \in 1..Len(resources) : ~UnknownKind(resources[n].kind)
        /\ \A k \in 1..Len(apiLog) : ~UnknownKind(apiLog[k].r.kind)

(***************************************************************************)
(* C28, C29: entries tracked, and calls made, while a cleanup() waits      *)
(***************************************************************************)
Range(s) == {s[k] : k \in 1..Len(s)}

\* the cleanup() call i, suspended on a deletion, runs on in this step
PassResumes(i) ==
    /\ tasks[i].op = "cleanup"
    /\ tasks[i].phase = "awaiting"
    /\ tasks'[i] # tasks[i]

\* the entries tracked since the cleanup() call i took its copy
TrackedDuringPass(i) == Range(resources) \ Range(tasks[i].snapshot)

\* the delete calls sent to the cluster in this step
NewCalls == {apiLog'[k] : k \in (Len(apiLog) + 1)..Len(apiLog')}

\* C28 as stated: a resource tracked while cleanup() is suspended on a
\* deletion is not deleted by that cleanup pass and is not untracked by it,
\* so that it is still tracked when the pass completes.
C28_Original ==
    [][\A i \in 1..Len(tasks) :
          PassResumes(i) =>
              \A e \in TrackedDuringPass(i) :
                  /\ e \in Range(resources')
                  /\ \A c \in NewCalls : ~SameIgnoringCase(c.r, e)]_vars

\* entry e names a resource (kind in any letter case, name, namespace) that
\* no entry of the copy taken by the cleanup() call i names
NotInSnapshot(e, i) ==
    \A k \in 1..Len(tasks[i].snapshot) : ~SameIgnoringCase(tasks[i].snapshot[k], e)

\* C28 (amended): a resource tracked while cleanup() is suspended on a
\* deletion, whose kind (letter case ignored), name and namespace are those
\* of no entry of the copy the pass took when it started, is neither deleted
\* nor untracked by that pass.
C28_SnapshotSparesNewResources ==
    [][\A i \in 1..Len(tasks) :
          PassResumes(i) =>
              \A e \in TrackedDuringPass(i) :
                  NotInSnapshot(e, i) =>
                      /\ e \in Range(resources')
                      /\ \A c \in NewCalls : ~SameIgnoringCase(c.r, e)]_vars

\* a cleanup() call that waited for a deletion has ended, and an entry
\* tracked after it started, for a resource its copy does not name, is
\* tracked
C28_Witness ==
    \E i \in 1..Len(tasks) :
        /\ tasks[i].op = "cleanup"
        /\ tasks[i].phase = "done"
        /\ \E k \in 1..Len(tasks[i].events) : IsCall(tasks[i].events[k])
                                          /\ ~UnknownKind(tasks[i].events[k].r.kind)
        /\ \E e \in TrackedDuringPass(i) : NotInSnapshot(e, i)

\* a delete call for the resource that r names is in flight
InFlight(r) ==
    \E j \in 1..Len(tasks) :
        /\ tasks[j].phase = "awaiting"
        /\ SameIgnoringCase(tasks[j].current, r)

Stamped(r) == "createdAt" \in DOMAIN r

\* a delete call for the resource that entry r names has succeeded since r
\* was tracked: the call was made for an entry tracked no earlier than r
DeletedSinceTracked(r) ==
    \E j \in 1..Len(tasks) : \E k \in 1..Len(tasks[j].events) :
        LET ev == tasks[j].events[k]
        IN /\ ev.e = "ret"
           /\ ev.ok
           /\ ~UnknownKind(ev.r.kind)
           /\ SameIgnoringCase(ev.r, r)
           /\ Stamped(ev.r)
           /\ ev.r.createdAt >= r.createdAt

\* C29: no delete call is sent for a resource while a delete call for it is
\* in flight, and none for a tracked entry whose resource was deleted since
\* the entry was tracked: overlapping cleanup() calls, a deleteResource()
\* next to a cleanup() and an entry tracked twice cause no second delete.
C29_NoSecondDelete ==
    [][\A c \in NewCalls :
          /\ ~InFlight(c.r)
          /\ Stamped(c.r) => ~DeletedSinceTracked(c.r)]_vars

(***************************************************************************)
(* C24: the default namespace                                              *)
(***************************************************************************)
\* C24: getDefaultNamespace() returns the value of K8S_NAMESPACE when it is
\* set and not the empty string, and "default" otherwise, whichever source
\* the configuration was loaded from and whatever context is current.
C24_DefaultNamespaceFromEnv ==
    mgr.nsCall.called =>
        LET v == env["K8S_NAMESPACE"]
        IN /\ (v.isSet /\ Len(v.text) > 0) => mgr.nsCall.result = v.text
           /\ (~v.isSet \/ Len(v.text) = 0) => mgr.nsCall.result = <<"default">>

\* the accessor answered with the value of K8S_NAMESPACE on a manager that
\* was loaded from KUBECONFIG_YAML and later switched to another context
C24_Witness ==
    /\ mgr.nsCall.called
    /\ mgr.nsCall.result = <<"my-ns">>
    /\ mgr.source = "yaml"
    /\ mgr.switch.called
    /\ ~mgr.switch.threw
    /\ mgr.kc.current = <<"ctx-b">>

(***************************************************************************)
(* C23: routing of POST /messages                                          *)
(***************************************************************************)
\* C23: every POST to /messages is handled by the transport whose session
\* id equals the request's sessionId, and a POST whose sessionId is that of
\* no connected transport is answered 404 and handled by no transport.
C23_PostRoutedToConnectedSession ==
    \A k \in 1..Len(sse.posts) :
        LET p == sse.posts[k]
        IN /\ p.handledBy # 0 =>
                 sse.transports[p.handledBy].sessionId = p.sessionId
           /\ (p.handledBy = 0 \/ ~p.open) =>
                 (p.status = "404" /\ p.handledBy = 0)

====
